---- MODULE Spec2Model ----
(***************************************************************************)
(* A model of EMPA_Parse.py: the section segmenter (split_section_lines),  *)
(* the block grammars, the file parser (parse_file) and the cross-file     *)
(* aggregator (walk_parse_and_export).                                     *)
(*                                                                         *)
(* A Python str is a sequence of one-character strings.  Indices of the    *)
(* source are 0-based: the cursor i of the source is kept 0-based and the  *)
(* line it points at is lines[i + 1].                                      *)
(***************************************************************************)
EXTENDS Integers, Sequences, FiniteSets, TLC

VARIABLES
    pc,         \* position in the function being run
    lines,      \* the list of lines the running loop iterates over
    i,          \* the loop cursor: the number of lines already consumed
    out,        \* the result under construction
    last_cond,  \* parse_column_conditions: the condition seen last
    sections,   \* parse_file: the SectionMap
    parsed,     \* parse_file: the record being built
    tree,       \* walk_parse_and_export: the files under root_dir
    todo,       \* walk_parse_and_export: the paths rglob has yet to yield
    parsed_by_file,  \* walk_parse_and_export: path -> record
    csv         \* walk_parse_and_export: the files written to out_dir

loopVars == <<pc, lines, i, out>>

fileVars == <<sections, parsed>>

walkVars == <<tree, todo, parsed_by_file, csv>>

vars == <<loopVars, last_cond, fileVars, walkVars>>

\* None as a dict key and as the value of last_cond
NoneKey == <<"None">>

\* the variables a specification does not use keep these values
IdleCond == last_cond = NoneKey

IdleFile == sections = <<>> /\ parsed = <<>>

IdleWalk == tree = {} /\ todo = {} /\ parsed_by_file = <<>> /\ csv = <<>>

(***************************************************************************)
(* Bounds of the model.                                                    *)
(***************************************************************************)
MaxSegLines == 4

MaxSNLines == 3

MaxSCLines == 3

MaxCCLines == 3

MaxFileSections == 2

MaxFiles == 2

(***************************************************************************)
(* str helpers.                                                            *)
(***************************************************************************)
\* the characters str.strip() removes and the regex class \s matches
Whitespace == {" ", "\t", "\n", "\r", "\f"}

Drop(s, k) == SubSeq(s, k + 1, Len(s))

Take(s, k) == SubSeq(s, 1, k)

\* s.startswith(p)
startswith(s, p) == Len(s) >= Len(p) /\ Take(s, Len(p)) = p

\* the number of leading characters of s that are in class
LeadRun(s, class) ==
    LET stops == {k \in 1..Len(s) : s[k] \notin class}
    IN  IF stops = {} THEN Len(s)
        ELSE (CHOOSE k \in stops : \A m \in stops : k <= m) - 1

lstrip(s, class) == Drop(s, LeadRun(s, class))

\* s without its trailing characters that are in class
rstrip(s, class) ==
    LET stops == {k \in 1..Len(s) : s[k] \notin class}
    IN  IF stops = {} THEN <<>>
        ELSE Take(s, CHOOSE k \in stops : \A m \in stops : k >= m)

\* s.strip()
strip(s) == rstrip(lstrip(s, Whitespace), Whitespace)

\* s.find(c) as a 1-based position, 0 when c does not occur
find(s, c) ==
    LET hits == {k \in 1..Len(s) : s[k] = c}
    IN  IF hits = {} THEN 0 ELSE CHOOSE k \in hits : \A m \in hits : k <= m

\* sep.join(parts)
RECURSIVE join(_, _)
join(parts, sep) ==
    IF parts = <<>> THEN <<>>
    ELSE IF Len(parts) = 1 THEN parts[1]
    ELSE parts[1] \o sep \o join(Tail(parts), sep)

\* s.splitlines(): a line break ("\n", "\r", "\f") ends a line, a trailing one
\* opens no new line
RECURSIVE splitlines(_)
splitlines(s) ==
    IF s = <<>> THEN <<>>
    ELSE LET n == LeadRun(s, {c \in {s[k] : k \in 1..Len(s)} : c \notin {"\n", "\r", "\f"}})
         IN  IF n = Len(s) THEN <<s>>
             ELSE <<Take(s, n)>> \o splitlines(Drop(s, n + 1))

(***************************************************************************)
(* An OrderedDict (and a Python dict, which keeps insertion order too) is  *)
(* a sequence of entries [key, val] with distinct keys.                    *)
(***************************************************************************)
od_has(d, key) == \E k \in 1..Len(d) : d[k].key = key

od_index(d, key) == CHOOSE k \in 1..Len(d) : d[k].key = key

od_get(d, key) == d[od_index(d, key)].val

\* d[key] = val: a new key is appended, an old key keeps its place
od_put(d, key, val) ==
    IF od_has(d, key)
    THEN [d EXCEPT ![od_index(d, key)] = [key |-> key, val |-> val]]
    ELSE Append(d, [key |-> key, val |-> val])

\* KV_RE = ^\s*([^:]+?)\s*:\s*(.*)$ applied with match().  Neither \s* nor
\* [^:]+? can cross a colon, so the colon of the pattern is the first colon
\* of the line, and group 1 needs one character before it.
KV_RE_match(line) == find(line, ":") > 1

\* group 1: the greedy \s* leaves at least one character, [^:]+? is lazy
KV_RE_group1(line) ==
    LET before == Take(line, find(line, ":") - 1)
        lead   == LeadRun(before, Whitespace)
    IN  IF lead = Len(before) THEN <<before[Len(before)]>>
        ELSE rstrip(Drop(before, lead), Whitespace)

\* group 2: what follows the colon and the greedy \s* after it
KV_RE_group2(line) == lstrip(Drop(line, find(line, ":")), Whitespace)

is_kv_line(line) == KV_RE_match(line)

\* a slip the inner loop could make: any key:value line ends a block
is_top_level_kv_line_indent_blind(line) == is_kv_line(line)

is_top_level_kv_line(line) ==
    IF line = <<>> THEN FALSE
    ELSE KV_RE_match(line) /\ line[1] \notin {" ", "\t"}

s_DataSetPoint == <<"D", "a", "t", "a", "S", "e", "t", "/", "P", "o", "i", "n", "t">>

(***************************************************************************)
(* split_section_lines.  block_end is the inner while loop: from cursor j  *)
(* it returns the cursor at which the loop stops.                          *)
(***************************************************************************)
RECURSIVE block_end(_, _)
block_end(ls, j) ==
    IF /\ j < Len(ls)
       /\ ~is_top_level_kv_line(ls[j + 1])
       /\ ~startswith(ls[j + 1], s_DataSetPoint)
    THEN block_end(ls, j + 1)
    ELSE j

\* one iteration of the outer while loop, from cursor j with result o
split_step(ls, j, o) ==
    LET ln  == ls[j + 1]
        key == strip(KV_RE_group1(ln))
        val == strip(KV_RE_group2(ln))
    IN  IF KV_RE_match(ln)
        THEN IF val # <<>>
             THEN [i |-> j + 1, out |-> od_put(o, key, val)]
             ELSE LET e == block_end(ls, j + 1)
                  IN  [i |-> e,
                       out |-> od_put(o, key,
                                strip(join(SubSeq(ls, j + 2, e), <<"\n">>)))]
        ELSE [i |-> j + 1, out |-> o]

RECURSIVE split_run(_, _, _)
split_run(ls, j, o) ==
    IF j < Len(ls)
    THEN LET s == split_step(ls, j, o) IN split_run(ls, s.i, s.out)
    ELSE o

split_section_lines(ls) == split_run(ls, 0, <<>>)

(***************************************************************************)
(* The lines the segmenter is run on: top-level and indented key:value     *)
(* lines, block openers, plain lines, and the table-start marker.          *)
(***************************************************************************)
SegLineSet ==
    { <<"a", ":", "v">>,                \* a:v
      <<"a", ":">>,                     \* a:
      <<"b", " ", ":", " ">>,           \* "b : "
      <<" ", "a", ":", "v">>,           \* " a:v"
      <<"\t", "c", ":">>,               \* "\tc:"
      <<":", "v">>,                     \* :v
      <<" ", "x", " ">>,                \* " x "
      <<>>,                             \* the empty line
      s_DataSetPoint,                   \* DataSet/Point
      <<" ">> \o s_DataSetPoint }       \* " DataSet/Point"

RECURSIVE SeqsUpTo(_, _)
SeqsUpTo(S, n) ==
    IF n = 0 THEN {<<>>}
    ELSE LET shorter == SeqsUpTo(S, n - 1)
         IN  shorter \cup {Append(s, x) : s \in {t \in shorter : Len(t) = n - 1}, x \in S}

(***************************************************************************)
(* SpecSeg: split_section_lines run on any list of lines, one iteration of *)
(* its outer loop per step.                                                *)
(***************************************************************************)
InitSeg ==
    /\ pc = "split"
    /\ lines \in SeqsUpTo(SegLineSet, MaxSegLines)
    /\ i = 0
    /\ out = <<>>
    /\ IdleCond /\ IdleFile /\ IdleWalk

\* lines 35-40: a key:value line with a value
SegScalar ==
    /\ pc = "split" /\ i < Len(lines)
    /\ KV_RE_match(lines[i + 1])
    /\ strip(KV_RE_group2(lines[i + 1])) # <<>>
    /\ i' = split_step(lines, i, out).i
    /\ out' = split_step(lines, i, out).out
    /\ UNCHANGED <<pc, lines, last_cond, fileVars, walkVars>>

\* lines 41-49: a key:value line with an empty value opens a block
SegBlock ==
    /\ pc = "split" /\ i < Len(lines)
    /\ KV_RE_match(lines[i + 1])
    /\ strip(KV_RE_group2(lines[i + 1])) = <<>>
    /\ i' = split_step(lines, i, out).i
    /\ out' = split_step(lines, i, out).out
    /\ UNCHANGED <<pc, lines, last_cond, fileVars, walkVars>>

\* lines 50-51: any other line is passed over
SegSkip ==
    /\ pc = "split" /\ i < Len(lines)
    /\ ~KV_RE_match(lines[i + 1])
    /\ i' = split_step(lines, i, out).i
    /\ out' = split_step(lines, i, out).out
    /\ UNCHANGED <<pc, lines, last_cond, fileVars, walkVars>>

\* line 52: return out
SegReturn ==
    /\ pc = "split" /\ i >= Len(lines)
    /\ pc' = "done"
    /\ UNCHANGED <<lines, i, out, last_cond, fileVars, walkVars>>

NextSeg == SegScalar \/ SegBlock \/ SegSkip \/ SegReturn

SpecSeg == InitSeg /\ [][NextSeg]_vars

(***************************************************************************)
(* Claims about split_section_lines, checked under SpecSeg.                *)
(***************************************************************************)
\* a line with leading whitespace (space or tab)
Indented(line) == line # <<>> /\ line[1] \in {" ", "\t"}

\* C1: every key of the returned SectionMap comes from a key:value line whose
\* first character is not whitespace; a line with leading space or tab never
\* contributes a key.
C1_KeysOnlyFromUnindentedLines ==
    \A e \in 1..Len(out) :
        \E p \in 1..Len(lines) :
            /\ KV_RE_match(lines[p])
            /\ ~Indented(lines[p])
            /\ strip(Take(lines[p], find(lines[p], ":") - 1)) = out[e].key

\* a line that ends a block: a key:value line with no indent, or the marker
C2_Terminates(line) ==
    \/ (KV_RE_match(line) /\ ~Indented(line))
    \/ startswith(line, s_DataSetPoint)

\* the cursor of the first terminating line after cursor j, or the input's end
C2_Stop(j) ==
    LET T == {e \in j..(Len(lines) - 1) : C2_Terminates(lines[e + 1])}
    IN  IF T = {} THEN Len(lines) ELSE CHOOSE e \in T : \A f \in T : e <= f

\* the cursor stands on a key:value line whose trimmed value is empty
C2_AtOpener ==
    /\ pc = "split" /\ i < Len(lines)
    /\ KV_RE_match(lines[i + 1])
    /\ strip(Drop(lines[i + 1], find(lines[i + 1], ":"))) = <<>>

\* C2: the step taken at a key:value line with an empty trimmed value stores,
\* under its key, the following lines verbatim and in order up to but
\* excluding the first later terminating line (or the end of input), joined
\* with newlines and trimmed at the outer ends; the cursor is left on the
\* terminating line, which the outer loop processes next.
C2_BlockIsFollowingLines ==
    [][ C2_AtOpener =>
          LET key  == strip(Take(lines[i + 1], find(lines[i + 1], ":") - 1))
              stop == C2_Stop(i + 1)
          IN  /\ i' = stop
              /\ od_has(out', key)
              /\ od_get(out', key) =
                     strip(join(SubSeq(lines, i + 2, stop), <<"\n">>))
      ]_vars

\* C2 witness: a block of two lines, the first an indented key:value line, has
\* just been stored and the cursor stands on the line that ended it.
C2_Witness ==
    /\ pc = "split" /\ i = 3 /\ Len(lines) = 4
    /\ KV_RE_match(lines[1]) /\ strip(KV_RE_group2(lines[1])) = <<>>
    /\ KV_RE_match(lines[2]) /\ Indented(lines[2])
    /\ strip(lines[3]) # <<>>
    /\ C2_Terminates(lines[4])
    /\ Len(out) = 1
    /\ out[1].val = strip(lines[2] \o <<"\n">> \o lines[3])
    /\ \E k \in 1..Len(out[1].val) : out[1].val[k] = "\n"

(***************************************************************************)
(* Helpers shared by the block grammars.                                   *)
(***************************************************************************)
UpperLetters == <<"A", "B", "C", "D", "E", "F", "G", "H", "I", "J", "K", "L", "M",
                  "N", "O", "P", "Q", "R", "S", "T", "U", "V", "W", "X", "Y", "Z">>

LowerLetters == <<"a", "b", "c", "d", "e", "f", "g", "h", "i", "j", "k", "l", "m",
                  "n", "o", "p", "q", "r", "s", "t", "u", "v", "w", "x", "y", "z">>

Digits == {"0", "1", "2", "3", "4", "5", "6", "7", "8", "9"}

lower_char(c) ==
    IF \E k \in 1..26 : UpperLetters[k] = c
    THEN LowerLetters[CHOOSE k \in 1..26 : UpperLetters[k] = c]
    ELSE c

\* s.lower()
lower(s) == [k \in 1..Len(s) |-> lower_char(s[k])]

\* c in s
contains(s, c) == find(s, c) > 0

\* [x.strip() for x in s.split(c, 1)] when c occurs in s
split_once(s, c) ==
    <<strip(Take(s, find(s, c) - 1)), strip(Drop(s, find(s, c)))>>

\* re.split(r',\s*', s): a separator is a comma with the whitespace after it
RECURSIVE re_split_comma(_)
re_split_comma(s) ==
    LET p == find(s, ",")
    IN  IF p = 0 THEN <<s>>
        ELSE <<Take(s, p - 1)>> \o re_split_comma(lstrip(Drop(s, p), Whitespace))

\* s.split(','): a separator is a comma
RECURSIVE split_comma(_)
split_comma(s) ==
    LET p == find(s, ",")
    IN  IF p = 0 THEN <<s>>
        ELSE <<Take(s, p - 1)>> \o split_comma(Drop(s, p))

\* [e.strip() for e in parts if e.strip()]
RECURSIVE strip_nonempty(_)
strip_nonempty(parts) ==
    IF parts = <<>> THEN <<>>
    ELSE (IF strip(parts[1]) = <<>> THEN <<>> ELSE <<strip(parts[1])>>)
         \o strip_nonempty(Tail(parts))

\* d.setdefault(key, val): the dict with key present
od_setdefault(d, key, val) == IF od_has(d, key) THEN d ELSE od_put(d, key, val)

\* d[e] = val for every e of elems, in order
RECURSIVE od_put_all(_, _, _)
od_put_all(d, elems, val) ==
    IF elems = <<>> THEN d
    ELSE od_put_all(od_put(d, elems[1], val), Tail(elems), val)

(***************************************************************************)
(* parse_standard_name_block.                                              *)
(***************************************************************************)
\* re.match(r'^(.*?)\s+On\s+(.*)$', ln, re.IGNORECASE): the lengths the lazy
\* group 1 can have; after it come a whole run of whitespace, "on" in any
\* case, and whitespace.
SN_RE_splits(ln) ==
    {p \in 0..Len(ln) :
        LET w == LeadRun(Drop(ln, p), Whitespace)
        IN  /\ w >= 1
            /\ p + w + 3 <= Len(ln)
            /\ lower_char(ln[p + w + 1]) = "o"
            /\ lower_char(ln[p + w + 2]) = "n"
            /\ ln[p + w + 3] \in Whitespace}

SN_RE_match(ln) == SN_RE_splits(ln) # {}

SN_RE_p(ln) == CHOOSE p \in SN_RE_splits(ln) : \A q \in SN_RE_splits(ln) : p <= q

SN_RE_group1(ln) == Take(ln, SN_RE_p(ln))

SN_RE_group2(ln) ==
    LET p == SN_RE_p(ln)
        w == LeadRun(Drop(ln, p), Whitespace)
    IN  lstrip(Drop(ln, p + w + 2), Whitespace)

\* line 191: the elements of the left side
SN_elems(ln) == strip_nonempty(re_split_comma(strip(SN_RE_group1(ln))))

\* a slip: the fallback assigns the empty list instead of setdefault
SN_bare_overwrite(o, ln) ==
    [o EXCEPT !.standard_to_elements = od_put(@, ln, <<>>)]

\* lines 196-198: a line that is not of the On form
SN_bare(o, ln) ==
    [o EXCEPT !.standard_to_elements = od_setdefault(@, ln, <<>>)]

\* lines 189-194: a line of the On form
SN_on(o, ln) ==
    LET right == strip(SN_RE_group2(ln))
        elems == SN_elems(ln)
        s2e   == od_setdefault(o.standard_to_elements, right, <<>>)
    IN  [standard_to_elements |-> od_put(s2e, right, od_get(s2e, right) \o elems),
         element_to_standard  |-> od_put_all(o.element_to_standard, elems, right)]

\* lines 184-198: the loop body for the raw line raw
SN_step(o, raw) ==
    LET ln == strip(raw)
    IN  IF ln = <<>> THEN o
        ELSE IF SN_RE_match(ln) THEN SN_on(o, ln)
        ELSE SN_bare(o, ln)

RECURSIVE SN_run(_, _)
SN_run(o, ls) == IF ls = <<>> THEN o ELSE SN_run(SN_step(o, ls[1]), Tail(ls))

SN_empty == [standard_to_elements |-> <<>>, element_to_standard |-> <<>>]

parse_standard_name_block(block) ==
    IF block = <<>> THEN SN_empty ELSE SN_run(SN_empty, splitlines(block))

SNLineSet ==
    { <<"a", " ", ",", "b", " ", "O", "n", " ", "W">>,      \* "a ,b On W"
      <<"c", " ", "O", "n", " ", "W">>,                     \* "c On W"
      <<"c", " ", "o", "n", " ", "V">>,                     \* "c on V"
      <<" ", "a", "\t", "O", "N", " ", " ", "V", " ">>,     \* " a\tON  V "
      <<"W">>,                                              \* "W"
      <<" ", "V">>,                                         \* " V"
      <<"a", " ", "O", "n", " ", "O", "n", " ", "W">>,      \* "a On On W"
      <<",", " ", "O", "n", " ", "W">>,                     \* ", On W"
      <<" ">> }                                             \* " "

(***************************************************************************)
(* SpecSN: parse_standard_name_block run on any block, one line per step.  *)
(***************************************************************************)
InitSN ==
    /\ pc = "standard_name"
    /\ \E ls \in SeqsUpTo(SNLineSet, MaxSNLines) :
           lines = splitlines(join(ls, <<"\n">>))
    /\ i = 0
    /\ out = SN_empty
    /\ IdleCond /\ IdleFile /\ IdleWalk

SNStepVars ==
    /\ pc = "standard_name" /\ i < Len(lines)
    /\ i' = i + 1
    /\ out' = SN_step(out, lines[i + 1])
    /\ UNCHANGED <<pc, lines, last_cond, fileVars, walkVars>>

\* lines 185-186
SNBlank ==
    /\ i < Len(lines) /\ strip(lines[i + 1]) = <<>>
    /\ SNStepVars

\* lines 188-194
SNOn ==
    /\ i < Len(lines) /\ strip(lines[i + 1]) # <<>>
    /\ SN_RE_match(strip(lines[i + 1]))
    /\ SNStepVars

\* lines 195-198
SNBare ==
    /\ i < Len(lines) /\ strip(lines[i + 1]) # <<>>
    /\ ~SN_RE_match(strip(lines[i + 1]))
    /\ SNStepVars

\* line 199
SNReturn ==
    /\ pc = "standard_name" /\ i >= Len(lines)
    /\ pc' = "done"
    /\ UNCHANGED <<lines, i, out, last_cond, fileVars, walkVars>>

NextSN == SNBlank \/ SNOn \/ SNBare \/ SNReturn

SpecSN == InitSN /\ [][NextSN]_vars

(***************************************************************************)
(* Claims about parse_standard_name_block, checked under SpecSN.           *)
(***************************************************************************)
\* line k is of the form '<elements> On S'
C9_OnLine(k, S) ==
    /\ SN_RE_match(strip(lines[k]))
    /\ strip(SN_RE_group2(strip(lines[k]))) = S

\* the element lists of the lines of the form '<elements> On S' among the
\* first k lines, concatenated in line order
RECURSIVE C9_Concat(_, _)
C9_Concat(k, S) ==
    IF k = 0 THEN <<>>
    ELSE C9_Concat(k - 1, S)
         \o (IF C9_OnLine(k, S) THEN SN_elems(strip(lines[k])) ELSE <<>>)

\* the standards the first k lines name: on the right of On, or as a bare line
C9_Standards(k) ==
    {strip(SN_RE_group2(strip(lines[p]))) :
        p \in {q \in 1..k : SN_RE_match(strip(lines[q]))}}
    \cup {strip(lines[p]) :
        p \in {q \in 1..k : strip(lines[q]) # <<>> /\ ~SN_RE_match(strip(lines[q]))}}

\* C9: after any sequence of block lines standard_to_elements[S] is the
\* concatenation, in line order, of the element lists of every line of the form
\* '<elements> On S'; a non-matching non-empty line only makes its text a
\* standard (with the empty list when no On line names it) and changes no list.
C9_ListsAreConcatenations ==
    LET s2e == out.standard_to_elements
    IN  /\ {s2e[e].key : e \in 1..Len(s2e)} = C9_Standards(i)
        /\ \A e \in 1..Len(s2e) : s2e[e].val = C9_Concat(i, s2e[e].key)

\* C9 witness: two On lines for one standard with a bare line of that standard
\* between them; the standard holds the elements of both lines.
C9_Witness ==
    /\ pc = "standard_name" /\ i = 3
    /\ \E S \in C9_Standards(1) :
          /\ C9_OnLine(1, S) /\ strip(lines[2]) = S /\ C9_OnLine(3, S)
          /\ SN_elems(strip(lines[1])) # <<>>
          /\ Len(SN_elems(strip(lines[3]))) >= 2
          /\ od_get(out.standard_to_elements, S)
                = SN_elems(strip(lines[1])) \o SN_elems(strip(lines[3]))

(***************************************************************************)
(* float(): a value is a float, a str or None.  The float m * 10^e is kept *)
(* as the pair (m, e) with m not divisible by 10, so that equal floats are *)
(* equal pairs.  float() is modelled on signed decimal literals with an    *)
(* optional exponent; the inputs of the model hold no inf, nan or          *)
(* underscore literals.                                                    *)
(***************************************************************************)
RECURSIVE digits_value(_)
digits_value(ds) ==
    IF ds = <<>> THEN 0
    ELSE 10 * digits_value(Take(ds, Len(ds) - 1))
         + (CHOOSE n \in 0..9 : <<"0", "1", "2", "3", "4", "5", "6", "7", "8", "9">>[n + 1] = ds[Len(ds)])

RECURSIVE normal_float(_, _)
normal_float(m, e) ==
    IF m = 0 THEN <<0, 0>>
    ELSE IF m % 10 = 0 THEN normal_float(m \div 10, e + 1)
    ELSE <<m, e>>

\* the pieces of a float literal: sign, integer digits, fraction digits, and
\* what follows them
float_pieces(v) ==
    LET signed == v # <<>> /\ v[1] \in {"+", "-"}
        body   == IF signed THEN Tail(v) ELSE v
        a      == LeadRun(body, Digits)
        dotted == a < Len(body) /\ body[a + 1] = "."
        afterD == IF dotted THEN Drop(body, a + 1) ELSE Drop(body, a)
        b      == IF dotted THEN LeadRun(afterD, Digits) ELSE 0
    IN  [neg  |-> signed /\ v[1] = "-",
         int  |-> Take(body, a),
         frac |-> Take(afterD, b),
         tail |-> Drop(afterD, b)]

\* the exponent part of a literal is empty or e/E, a sign, digits
exponent_ok(t) ==
    \/ t = <<>>
    \/ /\ Len(t) >= 2 /\ t[1] \in {"e", "E"}
       /\ LET d == IF t[2] \in {"+", "-"} THEN Drop(t, 2) ELSE Drop(t, 1)
          IN  d # <<>> /\ LeadRun(d, Digits) = Len(d)

exponent_value(t) ==
    IF t = <<>> THEN 0
    ELSE IF t[2] = "-" THEN 0 - digits_value(Drop(t, 2))
    ELSE IF t[2] = "+" THEN digits_value(Drop(t, 2))
    ELSE digits_value(Drop(t, 1))

\* float(v) does not raise
is_float(v) ==
    LET f == float_pieces(v)
    IN  Len(f.int) + Len(f.frac) >= 1 /\ exponent_ok(f.tail)

float_value(v) ==
    LET f == float_pieces(v)
        m == digits_value(f.int \o f.frac)
    IN  normal_float(IF f.neg THEN 0 - m ELSE m, exponent_value(f.tail) - Len(f.frac))

Float(v) == [kind |-> "float", num |-> float_value(v), str |-> <<>>]

Str(v) == [kind |-> "str", num |-> <<0, 0>>, str |-> v]

None == [kind |-> "none", num |-> <<0, 0>>, str |-> <<>>]

(***************************************************************************)
(* parse_standard_composition.                                             *)
(***************************************************************************)
\* re.split(r',\s*(?=[A-Za-z])', rest): a separator is a comma and the whole
\* run of whitespace after it, when a letter follows the run
SC_separators(t) ==
    {p \in 1..Len(t) :
        /\ t[p] = ","
        /\ LET w == LeadRun(Drop(t, p), Whitespace)
           IN  p + w + 1 <= Len(t) /\ (\E k \in 1..26 : t[p + w + 1] \in {UpperLetters[k], LowerLetters[k]})}

RECURSIVE SC_re_split(_)
SC_re_split(t) ==
    IF SC_separators(t) = {} THEN <<t>>
    ELSE LET p == CHOOSE q \in SC_separators(t) : \A r \in SC_separators(t) : q <= r
         IN  <<Take(t, p - 1)>> \o SC_re_split(lstrip(Drop(t, p), Whitespace))

\* lines 83-87: the value of a part
SC_value(val) ==
    LET v == strip(rstrip(val, {"%"}))
    IN  IF is_float(v) THEN Float(v) ELSE Str(v)

\* lines 78-89: the parts of a line, from comps c and element_to_standard e2s
RECURSIVE SC_parts(_, _, _, _)
SC_parts(parts, name, c, e2s) ==
    IF parts = <<>> THEN [comps |-> c, element_to_standard |-> e2s]
    ELSE IF ~contains(parts[1], ":") THEN SC_parts(Tail(parts), name, c, e2s)
    ELSE LET kv == split_once(parts[1], ":")
         IN  SC_parts(Tail(parts), name,
                      od_put(c, kv[1], SC_value(kv[2])),
                      od_put(e2s, kv[1], name))

\* lines 74-90: a line with an '='
SC_line(o, ln) ==
    LET nr   == split_once(ln, "=")
        done == SC_parts(strip_nonempty(SC_re_split(nr[2])), nr[1], <<>>,
                         o.element_to_standard)
    IN  [standard_to_composition |->
             od_put(o.standard_to_composition, nr[1], done.comps),
         element_to_standard |-> done.element_to_standard]

\* lines 68-90: the loop body for the raw line raw
SC_step(o, raw) ==
    LET ln == strip(raw)
    IN  IF ln = <<>> THEN o
        ELSE IF ~contains(ln, "=") THEN o
        ELSE SC_line(o, ln)

RECURSIVE SC_run(_, _)
SC_run(o, ls) == IF ls = <<>> THEN o ELSE SC_run(SC_step(o, ls[1]), Tail(ls))

SC_empty == [standard_to_composition |-> <<>>, element_to_standard |-> <<>>]

parse_standard_composition(block) ==
    IF block = <<>> THEN SC_empty ELSE SC_run(SC_empty, splitlines(block))

SCLineSet ==
    { <<"A", " ", "=", " ", "a", " ", ":", " ", "1", "%">>,                       \* "A = a : 1%"
      <<"A", " ", "=", " ", "b", " ", ":", " ", "2", ".", "5", "0", ",", " ", "a", " ", ":", " ", "x">>,
                                                                                \* "A = b : 2.50, a : x"
      <<"B", "=", "a", ":", "1", ",", "b", " ", ":", " ", "2", " ", "%">>,        \* "B=a:1,b : 2 %"
      <<" ", "A", " ", "=", " ", "c">>,                                           \* " A = c"
      <<"B", " ", "=", " ", "c", " ", ":", " ", "1", ",", " ", "2">>,             \* "B = c : 1, 2"
      <<"=", " ", "a", " ", ":", " ", "3">>,                                      \* "= a : 3"
      <<"c", " ", ":", " ", "1">>,                                                \* "c : 1"
      <<"A", " ", "=">>,                                                          \* "A ="
      <<>> }                                                                      \* the empty line

(***************************************************************************)
(* SpecSC: parse_standard_composition run on any block, one line per step. *)
(***************************************************************************)
InitSC ==
    /\ pc = "standard_composition"
    /\ \E ls \in SeqsUpTo(SCLineSet, MaxSCLines) :
           lines = splitlines(join(ls, <<"\n">>))
    /\ i = 0
    /\ out = SC_empty
    /\ IdleCond /\ IdleFile /\ IdleWalk

SCStepVars ==
    /\ pc = "standard_composition" /\ i < Len(lines)
    /\ i' = i + 1
    /\ out' = SC_step(out, lines[i + 1])
    /\ UNCHANGED <<pc, lines, last_cond, fileVars, walkVars>>

\* lines 69-73: a blank line or a line without '='
SCSkip ==
    /\ i < Len(lines)
    /\ (strip(lines[i + 1]) = <<>> \/ ~contains(lines[i + 1], "="))
    /\ SCStepVars

\* lines 74-90
SCLine ==
    /\ i < Len(lines)
    /\ strip(lines[i + 1]) # <<>> /\ contains(lines[i + 1], "=")
    /\ SCStepVars

\* line 91
SCReturn ==
    /\ pc = "standard_composition" /\ i >= Len(lines)
    /\ pc' = "done"
    /\ UNCHANGED <<lines, i, out, last_cond, fileVars, walkVars>>

NextSC == SCSkip \/ SCLine \/ SCReturn

SpecSC == InitSC /\ [][NextSC]_vars

(***************************************************************************)
(* Claims about parse_standard_composition, checked under SpecSC.          *)
(***************************************************************************)
\* C10: after any sequence of block lines, for every entry E -> S of
\* element_to_standard, S is a key of standard_to_composition and E is a key
\* of standard_to_composition[S].
C10_MappingsConsistent ==
    \A e \in 1..Len(out.element_to_standard) :
        LET E == out.element_to_standard[e].key
            S == out.element_to_standard[e].val
        IN  /\ od_has(out.standard_to_composition, S)
            /\ od_has(od_get(out.standard_to_composition, S), E)

(***************************************************************************)
(* parse_column_conditions.                                                *)
(***************************************************************************)
s_Cond == <<"C", "o", "n", "d", " ">>

\* Cond\s*(\d+)\s*: tried at position s of ln (re.IGNORECASE): whether it
\* matches, and then the digits and the position of the colon
CC_head(ln, s) ==
    LET t  == Drop(ln, s + 3)
        w1 == LeadRun(t, Whitespace)
        d  == LeadRun(Drop(t, w1), Digits)
        w2 == LeadRun(Drop(t, w1 + d), Whitespace)
        c  == w1 + d + w2 + 1
    IN  IF /\ s + 3 <= Len(ln)
           /\ lower(SubSeq(ln, s, s + 3)) = <<"c", "o", "n", "d">>
           /\ d >= 1
           /\ c <= Len(t) /\ t[c] = ":"
        THEN [ok |-> TRUE, num |-> SubSeq(t, w1 + 1, w1 + d), colon |-> s + 3 + c]
        ELSE [ok |-> FALSE, num |-> <<>>, colon |-> 0]

\* line 217: re.match(r'Cond\s*(\d+)\s*:\s*(.*)$', ln, re.IGNORECASE)
CC_m(ln) == CC_head(ln, 1)

\* line 220: m.group(2).strip().rstrip(',')
CC_desc(ln) == rstrip(strip(Drop(ln, CC_m(ln).colon)), {","})

\* \s*([^,]+(?:,\s*[^,]+)*) tried on r, the text after the colon: group 2 as
\* [ok, first, last], positions in r.  The greedy \s* gives one character back
\* when a comma or the end follows it; the group runs up to the first comma
\* that a comma or the end follows.
CC_elems_str(r) ==
    LET w     == LeadRun(r, Whitespace)
        first == IF w < Len(r) /\ r[w + 1] # "," THEN w + 1 ELSE w
        ends  == {q \in (first + 1)..Len(r) :
                     r[q] = "," /\ (q = Len(r) \/ r[q + 1] = ",")}
        last  == IF ends = {} THEN Len(r)
                 ELSE (CHOOSE q \in ends : \A q2 \in ends : q <= q2) - 1
    IN  [ok |-> first >= 1, first |-> first, last |-> last]

\* line 226: re.findall(r'Cond\s*(\d+)\s*:\s*([^,]+(?:,\s*[^,]+)*)', ln,
\* re.IGNORECASE) scanning from position s
RECURSIVE CC_findall(_, _)
CC_findall(ln, s) ==
    IF s > Len(ln) THEN <<>>
    ELSE LET h == CC_head(ln, s)
             g == CC_elems_str(Drop(ln, h.colon))
         IN  IF h.ok /\ g.ok
             THEN <<[num |-> h.num,
                     elems_str |-> SubSeq(Drop(ln, h.colon), g.first, g.last)]>>
                  \o CC_findall(ln, h.colon + g.last + 1)
             ELSE CC_findall(ln, s + 1)

\* conds.setdefault(key, {...})['elements'].extend(elems); e2c[e] = key
CC_extend(o, key, elems) ==
    LET conds == od_setdefault(o.conds, key, [desc |-> <<>>, elements |-> <<>>])
        old   == od_get(conds, key)
    IN  [conds |-> od_put(conds, key, [old EXCEPT !.elements = @ \o elems]),
         element_to_condition |-> od_put_all(o.element_to_condition, elems, key)]

\* a variant: the description is assigned, also to an existing condition
CC_register_refresh(o, key, desc) ==
    [o EXCEPT !.conds =
        IF od_has(@, key)
        THEN od_put(@, key, [od_get(@, key) EXCEPT !.desc = desc])
        ELSE od_put(@, key, [desc |-> desc, elements |-> <<>>])]

\* line 222: out['conds'].setdefault(key, {'desc': desc, 'elements': []})
CC_register(o, key, desc) ==
    [o EXCEPT !.conds = od_setdefault(@, key, [desc |-> desc, elements |-> <<>>])]

\* lines 228-234: the loop over found, from state st = [out, last_cond]
RECURSIVE CC_found(_, _)
CC_found(st, found) ==
    IF found = <<>> THEN st
    ELSE LET key == s_Cond \o found[1].num
         IN  CC_found([out |-> CC_extend(st.out, key,
                                  strip_nonempty(split_comma(found[1].elems_str))),
                       last_cond |-> key],
                      Tail(found))

\* line 237: the line continues the condition seen last
CC_continues(ln, lc) ==
    \/ startswith(ln, <<",">>)
    \/ (~startswith(lower(ln), <<"c", "o", "n", "d">>) /\ lc # NoneKey)

\* lines 216-241: the loop body for the line ln, from st = [out, last_cond]
CC_step(st, ln) ==
    LET m     == CC_m(ln)
        st1   == IF m.ok
                 THEN [out |-> CC_register(st.out, s_Cond \o m.num, CC_desc(ln)),
                       last_cond |-> s_Cond \o m.num]
                 ELSE st
        found == CC_findall(ln, 1)
    IN  IF found # <<>> THEN CC_found(st1, found)
        ELSE IF CC_continues(ln, st1.last_cond)
        THEN [out |-> CC_extend(st1.out, st1.last_cond,
                        strip_nonempty(re_split_comma(lstrip(ln, {",", " "})))),
              last_cond |-> st1.last_cond]
        ELSE st1

RECURSIVE CC_run(_, _)
CC_run(st, ls) == IF ls = <<>> THEN st ELSE CC_run(CC_step(st, ls[1]), Tail(ls))

CC_empty == [conds |-> <<>>, element_to_condition |-> <<>>]

\* line 213: the stripped non-blank lines of the block
CC_lines(block) == strip_nonempty(splitlines(block))

parse_column_conditions(block) ==
    IF block = <<>> THEN CC_empty
    ELSE CC_run([out |-> CC_empty, last_cond |-> NoneKey], CC_lines(block)).out

CCLineSet ==
    { <<"C", "o", "n", "d", " ", "1", " ", ":", " ", "p">>,          \* "Cond 1 : p"
      <<"C", "o", "n", "d", " ", "1", " ", ":", " ", "q", ",">>,     \* "Cond 1 : q,"
      <<"c", "o", "n", "d", "2", ":", "x", ",", " ", "y">>,          \* "cond2:x, y"
      <<",", " ", "C", "o", "n", "d", " ", "2", " ", ":", " ", "a", ",", "b">>,
                                                                     \* ", Cond 2 : a,b"
      <<",", "c">>,                                                  \* ",c"
      <<"d", " ", ",", " ", "e">>,                                   \* "d , e"
      <<"C", "o", "n", "d", " ", "1", " ", ":">>,                    \* "Cond 1 :"
      <<"C", "o", "n", "d", "o", "r">>,                              \* "Condor"
      <<"C", "o", "n", "d", " ", "2", " ", ":", " ", ",">>,          \* "Cond 2 : ,"
      <<"C", "o", "n", "d", " ", "1", ":", "a", ",", ",", "C", "o", "n", "d", " ", "2", ":", "p">>,
                                                                     \* "Cond 1:a,,Cond 2:p"
      <<" ">> }                                                      \* " "

(***************************************************************************)
(* SpecCC: parse_column_conditions run on any block, one line per step.    *)
(***************************************************************************)
InitCC ==
    /\ pc = "column_conditions"
    /\ \E ls \in SeqsUpTo(CCLineSet, MaxCCLines) :
           lines = CC_lines(join(ls, <<"\n">>))
    /\ i = 0
    /\ out = CC_empty
    /\ last_cond = NoneKey
    /\ IdleFile /\ IdleWalk

CCStepVars ==
    /\ pc = "column_conditions" /\ i < Len(lines)
    /\ i' = i + 1
    /\ out' = CC_step([out |-> out, last_cond |-> last_cond], lines[i + 1]).out
    /\ last_cond' = CC_step([out |-> out, last_cond |-> last_cond], lines[i + 1]).last_cond
    /\ UNCHANGED <<pc, lines, fileVars, walkVars>>

\* lines 226-235: the line holds 'Cond N : elements'
CCFound ==
    /\ i < Len(lines)
    /\ CC_findall(lines[i + 1], 1) # <<>>
    /\ CCStepVars

\* lines 237-241: a continuation line
CCContinuation ==
    /\ i < Len(lines)
    /\ CC_findall(lines[i + 1], 1) = <<>>
    /\ CC_continues(lines[i + 1],
                    CC_step([out |-> out, last_cond |-> last_cond], lines[i + 1]).last_cond)
    /\ CCStepVars

\* any other line: at most the description is registered (lines 217-223)
CCOther ==
    /\ i < Len(lines)
    /\ CC_findall(lines[i + 1], 1) = <<>>
    /\ ~CC_continues(lines[i + 1],
                     CC_step([out |-> out, last_cond |-> last_cond], lines[i + 1]).last_cond)
    /\ CCStepVars

\* line 242
CCReturn ==
    /\ pc = "column_conditions" /\ i >= Len(lines)
    /\ pc' = "done"
    /\ UNCHANGED <<lines, i, out, last_cond, fileVars, walkVars>>

NextCC == CCFound \/ CCContinuation \/ CCOther \/ CCReturn

SpecCC == InitCC /\ [][NextCC]_vars

(***************************************************************************)
(* Claims about parse_column_conditions, checked under SpecCC.             *)
(***************************************************************************)
\* line p starts with 'Cond N :' for the N of the condition id key
C8_DescLine(p, key) ==
    /\ p <= Len(lines)
    /\ CC_m(lines[p]).ok
    /\ s_Cond \o CC_m(lines[p]).num = key

\* C8 as claimed: after any sequence of block lines the desc of every
\* condition is the description (trailing commas stripped) of the last line
\* that started with 'Cond N :' for that N.
C8_DescIsLastDescription ==
    \A e \in 1..Len(out.conds) :
        LET key == out.conds[e].key
            P   == {p \in 1..i : C8_DescLine(p, key)}
        IN  P # {} =>
              out.conds[e].val.desc
                 = CC_desc(lines[CHOOSE p \in P : \A q \in P : q <= p])

\* C8 as amended: a line registers the description only of a condition that
\* is new.  In every step a condition that exists keeps its desc, and a
\* condition the step creates gets the description of the line when the line
\* starts with its 'Cond N :', and the empty string otherwise.
C8_DescSetOnceAtRegistration ==
    [][ \A e \in 1..Len(out'.conds) :
          LET key == out'.conds[e].key
          IN  out'.conds[e].val.desc =
                IF od_has(out.conds, key) THEN od_get(out.conds, key).desc
                ELSE IF C8_DescLine(i + 1, key) THEN CC_desc(lines[i + 1])
                ELSE <<>>
      ]_vars

\* C8 witness: the line just processed starts with 'Cond N :' and carries
\* another description than the one line 1 registered, which the condition
\* still has.
C8_Witness ==
    /\ pc = "column_conditions" /\ i >= 2
    /\ \E e \in 1..Len(out.conds) :
          LET key == out.conds[e].key
          IN  /\ C8_DescLine(1, key) /\ C8_DescLine(i, key)
              /\ CC_desc(lines[1]) # <<>>
              /\ CC_desc(lines[i]) # <<>>
              /\ CC_desc(lines[i]) # CC_desc(lines[1])
              /\ out.conds[e].val.desc = CC_desc(lines[1])

\* key is 'Cond N' with N a string of digits
C11_IsCondId(key) ==
    /\ Len(key) > Len(s_Cond)
    /\ Take(key, Len(s_Cond)) = s_Cond
    /\ \A k \in (Len(s_Cond) + 1)..Len(key) : key[k] \in Digits

\* C11: after any sequence of block lines every key of conds is a condition
\* id 'Cond N' with N a digit string, and every value of
\* element_to_condition is such a key of conds; a comma-leading line before
\* any condition adds no entry under a missing (None) condition.
C11_CondIdsOnly ==
    /\ \A e \in 1..Len(out.conds) : C11_IsCondId(out.conds[e].key)
    /\ \A e \in 1..Len(out.element_to_condition) :
          /\ C11_IsCondId(out.element_to_condition[e].val)
          /\ od_has(out.conds, out.element_to_condition[e].val)

(***************************************************************************)
(* parse_calibration_block (the definition at lines 142-171, which         *)
(* replaces the identical one at lines 93-122).                            *)
(***************************************************************************)
\* line 156: re.search finds a parenthesised group in right: the first '(' and
\* the last ')' after it
CAL_open(right) == find(right, "(")

CAL_close(right) ==
    LET hits == {k \in (CAL_open(right) + 1)..Len(right) : right[k] = ")"}
    IN  IF CAL_open(right) = 0 \/ hits = {} THEN 0
        ELSE CHOOSE k \in hits : \A m \in hits : m <= k

\* line 164: re.sub(r'[^\d\.\-eE]', '', val)
RECURSIVE CAL_val_num(_)
CAL_val_num(val) ==
    IF val = <<>> THEN <<>>
    ELSE (IF val[1] \in Digits \cup {".", "-", "e", "E"} THEN <<val[1]>> ELSE <<>>)
         \o CAL_val_num(Tail(val))

\* lines 160-168: the loop over the parts inside the parentheses
RECURSIVE CAL_cps(_, _)
CAL_cps(parts, cps) ==
    IF parts = <<>> THEN cps
    ELSE IF ~contains(parts[1], ":") THEN CAL_cps(Tail(parts), cps)
    ELSE LET kv == split_once(parts[1], ":")
             n  == CAL_val_num(kv[2])
         IN  CAL_cps(Tail(parts),
                     od_put(cps, kv[1], IF is_float(n) THEN Float(n) ELSE Str(kv[2])))

\* lines 169-170: every element gets the path and its cps value
RECURSIVE CAL_assign(_, _, _, _)
CAL_assign(o, elements, path, cps) ==
    IF elements = <<>> THEN o
    ELSE CAL_assign(
           od_put(o, elements[1],
                  [cal_file |-> path,
                   cps_info |-> IF cps # <<>> /\ od_has(cps, elements[1])
                                THEN od_get(cps, elements[1]) ELSE None]),
           Tail(elements), path, cps)

\* lines 148-170: the loop body for the raw line raw
CAL_step(o, raw) ==
    LET ln == strip(raw)
    IN  IF ln = <<>> \/ ~contains(ln, ":") THEN o
        ELSE LET lr       == split_once(ln, ":")
                 right    == lr[2]
                 elements == strip_nonempty(split_comma(lr[1]))
                 a        == CAL_open(right)
                 b        == CAL_close(right)
                 path     == IF b = 0 THEN right ELSE strip(Take(right, a - 1))
                 cps      == IF b = 0 THEN <<>>
                             ELSE CAL_cps(re_split_comma(SubSeq(right, a + 1, b - 1)), <<>>)
             IN  CAL_assign(o, elements, path, cps)

RECURSIVE CAL_run(_, _)
CAL_run(o, ls) == IF ls = <<>> THEN o ELSE CAL_run(CAL_step(o, ls[1]), Tail(ls))

parse_calibration_block(block) ==
    IF block = <<>> THEN <<>> ELSE CAL_run(<<>>, splitlines(block))

(***************************************************************************)
(* parse_analysis_parameters.                                              *)
(***************************************************************************)
\* re.split(r'\s{2,}|\t', t): a separator is a run of two or more whitespace
\* characters, or else a single tab
AP_separator_at(t, p) ==
    LET w == LeadRun(Drop(t, p - 1), Whitespace)
    IN  IF w >= 2 THEN w ELSE IF t[p] = "\t" THEN 1 ELSE 0

RECURSIVE AP_re_split(_)
AP_re_split(t) ==
    LET seps == {p \in 1..Len(t) : AP_separator_at(t, p) > 0}
    IN  IF seps = {} THEN <<t>>
        ELSE LET p == CHOOSE q \in seps : \A r \in seps : q <= r
             IN  <<Take(t, p - 1)>> \o AP_re_split(Drop(t, p - 1 + AP_separator_at(t, p)))

\* line 137: {header[k].strip(): cols[k].strip() for k in range(min(...))}
RECURSIVE AP_row(_, _, _, _)
AP_row(header, cols, k, row) ==
    IF k > Len(header) \/ k > Len(cols) THEN row
    ELSE AP_row(header, cols, k + 1, od_put(row, strip(header[k]), strip(cols[k])))

\* lines 135-136: a short row is padded with empty strings
AP_pad(cols, n) ==
    IF Len(cols) < n THEN cols \o [k \in 1..(n - Len(cols)) |-> <<>>] ELSE cols

\* line 128: the lines of the block that are not blank
RECURSIVE AP_lines(_)
AP_lines(ls) ==
    IF ls = <<>> THEN <<>>
    ELSE (IF strip(ls[1]) = <<>> THEN <<>> ELSE <<ls[1]>>) \o AP_lines(Tail(ls))

parse_analysis_parameters(block) ==
    LET ls == AP_lines(splitlines(block))
    IN  IF block = <<>> \/ ls = <<>> THEN <<>>
        ELSE LET header == AP_re_split(strip(ls[1]))
             IN  [k \in 1..(Len(ls) - 1) |->
                    AP_row(header,
                           AP_pad(AP_re_split(strip(ls[k + 1])), Len(header)),
                           1, <<>>)]

(***************************************************************************)
(* parse_file.  A value of the record is a raw section string or the       *)
(* result of one grammar; kind tells which field holds it.                 *)
(***************************************************************************)
V_empty ==
    [kind |-> "raw", raw |-> <<>>, sc |-> SC_empty, cal |-> <<>>, ap |-> <<>>,
     sn |-> SN_empty, cc |-> CC_empty]

\* the value r of the given kind
V(kind, r) ==
    CASE kind = "raw" -> [V_empty EXCEPT !.raw = r]
      [] kind = "sc" -> [V_empty EXCEPT !.kind = "sc", !.sc = r]
      [] kind = "cal" -> [V_empty EXCEPT !.kind = "cal", !.cal = r]
      [] kind = "ap" -> [V_empty EXCEPT !.kind = "ap", !.ap = r]
      [] kind = "sn" -> [V_empty EXCEPT !.kind = "sn", !.sn = r]
      [] kind = "cc" -> [V_empty EXCEPT !.kind = "cc", !.cc = r]

p_standard_composition ==
    <<"s", "t", "a", "n", "d", "a", "r", "d", " ", "c", "o", "m", "p", "o", "s", "i", "t", "i", "o", "n">>

p_calibration_file ==
    <<"c", "a", "l", "i", "b", "r", "a", "t", "i", "o", "n", " ", "f", "i", "l", "e">>

p_analysis_param ==
    <<"a", "n", "a", "l", "y", "s", "i", "s", " ", "p", "a", "r", "a", "m">>

p_standard_name ==
    <<"s", "t", "a", "n", "d", "a", "r", "d", " ", "n", "a", "m", "e">>

p_column_conditions ==
    <<"c", "o", "l", "u", "m", "n", " ", "c", "o", "n", "d", "i", "t", "i", "o", "n", "s">>

k_Standard_composition_parsed ==
    <<"S", "t", "a", "n", "d", "a", "r", "d", " ", "c", "o", "m", "p", "o", "s", "i", "t", "i", "o", "n", " ", "p", "a", "r", "s", "e", "d">>

k_Calibration_parsed ==
    <<"C", "a", "l", "i", "b", "r", "a", "t", "i", "o", "n", " ", "p", "a", "r", "s", "e", "d">>

k_Analysis_Parameters_parsed ==
    <<"A", "n", "a", "l", "y", "s", "i", "s", " ", "P", "a", "r", "a", "m", "e", "t", "e", "r", "s", " ", "p", "a", "r", "s", "e", "d">>

k_Standard_Name_parsed ==
    <<"S", "t", "a", "n", "d", "a", "r", "d", " ", "N", "a", "m", "e", " ", "p", "a", "r", "s", "e", "d">>

k_Column_Conditions_parsed ==
    <<"C", "o", "l", "u", "m", "n", " ", "C", "o", "n", "d", "i", "t", "i", "o", "n", "s", " ", "p", "a", "r", "s", "e", "d">>

\* lines 249-250: the lines before the first one that starts with the marker
header_lines(ls) ==
    LET marks == {k \in 1..Len(ls) : startswith(ls[k], s_DataSetPoint)}
    IN  IF marks = {} THEN ls
        ELSE Take(ls, (CHOOSE k \in marks : \A m \in marks : k <= m) - 1)

\* line 255: parsed.update(sections)
PF_copy(secs) == [k \in 1..Len(secs) |-> [key |-> secs[k].key, val |-> V("raw", secs[k].val)]]

\* a slip: a loop without its break ends on the last key with the prefix
RECURSIVE first_key_no_break(_, _, _)
first_key_no_break(d, prefix, k) ==
    IF k > Len(d) THEN 0
    ELSE LET later == first_key_no_break(d, prefix, k + 1)
         IN  IF later # 0 THEN later
             ELSE IF startswith(lower(d[k].key), prefix) THEN k ELSE 0

\* for k in keys: if k.lower().startswith(prefix): ...; break -- the position
\* of the key the loop stops at, scanning from position k; 0 when it ends
\* without a match
RECURSIVE first_key(_, _, _)
first_key(d, prefix, k) ==
    IF k > Len(d) THEN 0
    ELSE IF startswith(lower(d[k].key), prefix) THEN k
    ELSE first_key(d, prefix, k + 1)

\* lines 258-262
PF_standard_composition(secs, rec) ==
    LET k == first_key(secs, p_standard_composition, 1)
    IN  IF k = 0 THEN rec
        ELSE od_put(rec, k_Standard_composition_parsed,
                    V("sc", parse_standard_composition(secs[k].val)))

\* lines 264-267
PF_calibration(secs, rec) ==
    LET k == first_key(secs, p_calibration_file, 1)
    IN  IF k = 0 THEN rec
        ELSE od_put(rec, k_Calibration_parsed,
                    V("cal", parse_calibration_block(secs[k].val)))

\* lines 269-272
PF_analysis_parameters(secs, rec) ==
    LET k == first_key(secs, p_analysis_param, 1)
    IN  IF k = 0 THEN rec
        ELSE od_put(rec, k_Analysis_Parameters_parsed,
                    V("ap", parse_analysis_parameters(secs[k].val)))

\* lines 275-278
PF_standard_name(secs, rec) ==
    LET k == first_key(secs, p_standard_name, 1)
    IN  IF k = 0 THEN rec
        ELSE od_put(rec, k_Standard_Name_parsed,
                    V("sn", parse_standard_name_block(secs[k].val)))

\* lines 281-284
PF_column_conditions(secs, rec) ==
    LET k == first_key(secs, p_column_conditions, 1)
    IN  IF k = 0 THEN rec
        ELSE od_put(rec, k_Column_Conditions_parsed,
                    V("cc", parse_column_conditions(secs[k].val)))

\* parse_file on a file that read_lines reads as ls
parse_file(ls) ==
    LET secs == split_section_lines(header_lines(ls))
    IN  PF_column_conditions(secs,
          PF_standard_name(secs,
            PF_analysis_parameters(secs,
              PF_calibration(secs,
                PF_standard_composition(secs, PF_copy(secs))))))

\* the sections the files of the model are made of
FileChunkSet ==
    {
      <<<<"S", "t", "a", "n", "d", "a", "r", "d", " ", "c", "o", "m", "p", "o", "s", "i", "t", "i", "o", "n", ":">>,
          \* 'Standard composition:'
        <<" ", "A", " ", "=", " ", "a", " ", ":", " ", "1", "%">>,
          \* ' A = a : 1%'
        <<" ", "B", " ", "=", " ", "b", " ", ":", " ", "x">>>>,
          \* ' B = b : x'
      <<<<"S", "T", "A", "N", "D", "A", "R", "D", " ", "C", "O", "M", "P", "O", "S", "I", "T", "I", "O", "N", "S", " ", "2", ":", " ", "A", " ", "=", " ", "c", " ", ":", " ", "2">>>>,
          \* 'STANDARD COMPOSITIONS 2: A = c : 2'
      <<<<"S", "t", "a", "n", "d", "a", "r", "d", " ", "c", "o", "m", "p", "o", "s", "i", "t", "i", "o", "n", " ", "p", "a", "r", "s", "e", "d", ":", " ", "x">>>>,
          \* 'Standard composition parsed: x'
      <<<<"S", "t", "a", "n", "d", "a", "r", "d", " ", "N", "a", "m", "e", ":">>,
          \* 'Standard Name:'
        <<" ", "a", " ", ",", "b", " ", "O", "n", " ", "W">>>>,
          \* ' a ,b On W'
      <<<<"s", "t", "a", "n", "d", "a", "r", "d", " ", "n", "a", "m", "e", "s", ":", " ", "b", " ", "O", "n", " ", "V">>>>,
          \* 'standard names: b On V'
      <<<<"S", "t", "a", "n", "d", "a", "r", "d", " ", "N", "a", "m", "e", " ", "p", "a", "r", "s", "e", "d", ":">>,
          \* 'Standard Name parsed:'
        <<" ", "c", " ", "O", "n", " ", "W">>>>,
          \* ' c On W'
      <<<<"C", "a", "l", "i", "b", "r", "a", "t", "i", "o", "n", " ", "f", "i", "l", "e", ":", " ", "a", " ", ",", "b", " ", ":", " ", "f", " ", "(", "a", " ", ":", " ", "1", " ", "c", "p", "s", ")">>>>,
          \* 'Calibration file: a ,b : f (a : 1 cps)'
      <<<<"C", "A", "L", "I", "B", "R", "A", "T", "I", "O", "N", " ", "F", "I", "L", "E", "S", ":", " ", "b", " ", ":", " ", "g">>>>,
          \* 'CALIBRATION FILES: b : g'
      <<<<"C", "a", "l", "i", "b", "r", "a", "t", "i", "o", "n", " ", "p", "a", "r", "s", "e", "d", ":", " ", "r", "a", "w">>>>,
          \* 'Calibration parsed: raw'
      <<<<"A", "n", "a", "l", "y", "s", "i", "s", " ", "P", "a", "r", "a", "m", "e", "t", "e", "r", "s", ":">>,
          \* 'Analysis Parameters:'
        <<" ", "E", "l", "\t", "X", "t", "a", "l">>,
          \* ' El<tab>Xtal'
        <<" ", "a", "\t", "L", "I", "F">>>>,
          \* ' a<tab>LIF'
      <<<<"a", "n", "a", "l", "y", "s", "i", "s", " ", "p", "a", "r", "a", "m", ":">>,
          \* 'analysis param:'
        <<"E", "l", "e", "m", "e", "n", "t", " ", " ", "C", "r", "y", "s", "t", "a", "l">>,
          \* 'Element  Crystal'
        <<"b", " ", " ", "P", "E", "T">>>>,
          \* 'b  PET'
      <<<<"C", "o", "l", "u", "m", "n", " ", "C", "o", "n", "d", "i", "t", "i", "o", "n", "s", ":", " ", "C", "o", "n", "d", " ", "1", " ", ":", " ", "p">>>>,
          \* 'Column Conditions: Cond 1 : p'
      <<<<"c", "o", "l", "u", "m", "n", " ", "c", "o", "n", "d", "i", "t", "i", "o", "n", "s", " ", "2", ":">>,
          \* 'column conditions 2:'
        <<",", " ", "C", "o", "n", "d", " ", "2", " ", ":", " ", "a">>>>,
          \* ', Cond 2 : a'
      <<<<"C", "o", "m", "m", "e", "n", "t", ":", " ", "h", "i">>>>,
          \* 'Comment: hi'
      <<<<"D", "a", "t", "a", "S", "e", "t", "/", "P", "o", "i", "n", "t", " ", "1">>>> }
          \* 'DataSet/Point 1'

\* the files made of up to n sections
RECURSIVE FilesUpTo(_)
FilesUpTo(n) ==
    IF n = 0 THEN {<<>>}
    ELSE FilesUpTo(n - 1) \cup {f \o c : f \in FilesUpTo(n - 1), c \in FileChunkSet}

(***************************************************************************)
(* SpecFile: parse_file run on any file, one statement group per step.     *)
(***************************************************************************)
InitFile ==
    /\ pc = "split"
    /\ lines \in FilesUpTo(MaxFileSections)
    /\ i = 0
    /\ out = <<>>
    /\ sections = <<>>
    /\ parsed = <<>>
    /\ IdleCond /\ IdleWalk

\* lines 247-255
FileSplit ==
    /\ pc = "split"
    /\ sections' = split_section_lines(header_lines(lines))
    /\ parsed' = PF_copy(sections')
    /\ pc' = "standard_composition"
    /\ UNCHANGED <<lines, i, out, last_cond, walkVars>>

\* lines 258-262
FileStandardComposition ==
    /\ pc = "standard_composition"
    /\ parsed' = PF_standard_composition(sections, parsed)
    /\ pc' = "calibration"
    /\ UNCHANGED <<lines, i, out, last_cond, sections, walkVars>>

\* lines 264-267
FileCalibration ==
    /\ pc = "calibration"
    /\ parsed' = PF_calibration(sections, parsed)
    /\ pc' = "analysis_parameters"
    /\ UNCHANGED <<lines, i, out, last_cond, sections, walkVars>>

\* lines 269-272
FileAnalysisParameters ==
    /\ pc = "analysis_parameters"
    /\ parsed' = PF_analysis_parameters(sections, parsed)
    /\ pc' = "standard_name"
    /\ UNCHANGED <<lines, i, out, last_cond, sections, walkVars>>

\* lines 275-278
FileStandardName ==
    /\ pc = "standard_name"
    /\ parsed' = PF_standard_name(sections, parsed)
    /\ pc' = "column_conditions"
    /\ UNCHANGED <<lines, i, out, last_cond, sections, walkVars>>

\* lines 281-286
FileColumnConditions ==
    /\ pc = "column_conditions"
    /\ parsed' = PF_column_conditions(sections, parsed)
    /\ pc' = "done"
    /\ UNCHANGED <<lines, i, out, last_cond, sections, walkVars>>

NextFile ==
    \/ FileSplit \/ FileStandardComposition \/ FileCalibration
    \/ FileAnalysisParameters \/ FileStandardName \/ FileColumnConditions

SpecFile == InitFile /\ [][NextFile]_vars

(***************************************************************************)
(* Claims about parse_file.                                                *)
(***************************************************************************)
\* C3: the record parse_file returns contains every entry of the section map
\* unchanged, same key and same raw string: storing the results of the
\* grammars under their synthetic keys never replaces a raw section entry.
C3_RawEntriesKept ==
    pc = "done" =>
        \A k \in 1..Len(sections) :
            /\ od_has(parsed, sections[k].key)
            /\ od_get(parsed, sections[k].key) = V("raw", sections[k].val)

C4_Grammars == {"sc", "cal", "ap", "sn", "cc"}

C4_Prefix(g) ==
    CASE g = "sc" -> p_standard_composition
      [] g = "cal" -> p_calibration_file
      [] g = "ap" -> p_analysis_param
      [] g = "sn" -> p_standard_name
      [] g = "cc" -> p_column_conditions

C4_Key(g) ==
    CASE g = "sc" -> k_Standard_composition_parsed
      [] g = "cal" -> k_Calibration_parsed
      [] g = "ap" -> k_Analysis_Parameters_parsed
      [] g = "sn" -> k_Standard_Name_parsed
      [] g = "cc" -> k_Column_Conditions_parsed

C4_Apply(g, block) ==
    CASE g = "sc" -> V("sc", parse_standard_composition(block))
      [] g = "cal" -> V("cal", parse_calibration_block(block))
      [] g = "ap" -> V("ap", parse_analysis_parameters(block))
      [] g = "sn" -> V("sn", parse_standard_name_block(block))
      [] g = "cc" -> V("cc", parse_column_conditions(block))

C4_Matches(g) ==
    {k \in 1..Len(sections) : startswith(lower(sections[k].key), C4_Prefix(g))}

\* C4: for each of the five grammars, when section keys match the grammar's
\* prefix, the value under the grammar's synthetic key is the grammar applied
\* to the value of the first matching key in insertion order, never to a later
\* one.
C4_FirstMatchingKeyWins ==
    pc = "done" =>
        \A g \in C4_Grammars :
            C4_Matches(g) # {} =>
                LET first == CHOOSE k \in C4_Matches(g) : \A m \in C4_Matches(g) : k <= m
                IN  /\ od_has(parsed, C4_Key(g))
                    /\ od_get(parsed, C4_Key(g)) = C4_Apply(g, sections[first].val)

\* a file with two sections of one grammar whose results differ has been parsed
C4_Witness ==
    /\ pc = "done"
    /\ \E g \in C4_Grammars : \E k, m \in C4_Matches(g) :
          /\ k < m
          /\ C4_Apply(g, sections[k].val) # C4_Apply(g, sections[m].val)
          /\ od_get(parsed, C4_Key(g)) = C4_Apply(g, sections[k].val)

(***************************************************************************)
(* walk_parse_and_export.                                                  *)
(***************************************************************************)
\* the characters in code point order from " " (32) to "_" (95)
AsciiLow ==
    <<" ", "!", "\"", "#", "$", "%", "&", "'", "(", ")", "*", "+",
       ",", "-", ".", "/", "0", "1", "2", "3", "4", "5", "6", "7",
       "8", "9", ":", ";", "<", "=", ">", "?", "@", "A", "B", "C",
       "D", "E", "F", "G", "H", "I", "J", "K", "L", "M", "N", "O",
       "P", "Q", "R", "S", "T", "U", "V", "W", "X", "Y", "Z", "[",
       "\\", "]", "^", "_">>

\* the characters from "a" (97) to "~" (126)
AsciiHigh ==
    <<"a", "b", "c", "d", "e", "f", "g", "h", "i", "j", "k", "l",
       "m", "n", "o", "p", "q", "r", "s", "t", "u", "v", "w", "x",
       "y", "z", "{", "|", "}", "~">>

ord(c) ==
    IF c = "\t" THEN 9
    ELSE IF c = "\n" THEN 10
    ELSE IF \E k \in 1..Len(AsciiLow) : AsciiLow[k] = c
    THEN 31 + (CHOOSE k \in 1..Len(AsciiLow) : AsciiLow[k] = c)
    ELSE 96 + (CHOOSE k \in 1..Len(AsciiHigh) : AsciiHigh[k] = c)

\* a < b for str
RECURSIVE str_lt(_, _)
str_lt(a, b) ==
    IF b = <<>> THEN FALSE
    ELSE IF a = <<>> THEN TRUE
    ELSE IF a[1] = b[1] THEN str_lt(Tail(a), Tail(b))
    ELSE ord(a[1]) < ord(b[1])

\* sorted(S) for a set or the keys of a dict
RECURSIVE sorted(_)
sorted(S) ==
    IF S = {} THEN <<>>
    ELSE LET m == CHOOSE x \in S : \A y \in S \ {x} : str_lt(x, y)
         IN  <<m>> \o sorted(S \ {m})

\* s.rfind(c) + 1
rfind(s, c) ==
    LET hits == {k \in 1..Len(s) : s[k] = c}
    IN  IF hits = {} THEN 0 ELSE CHOOSE k \in hits : \A m \in hits : m <= k

\* sub in s
has_sub(s, sub) ==
    \E k \in 0..(Len(s) - Len(sub)) : SubSeq(s, k + 1, k + Len(sub)) = sub

\* d.update(e)
RECURSIVE od_update(_, _)
od_update(d, e) ==
    IF e = <<>> THEN d ELSE od_update(od_put(d, e[1].key, e[1].val), Tail(e))

\* Path(path).suffix: the last component from its last dot on, when the dot
\* is neither its first nor its last character
suffix(path) ==
    LET name == Drop(path, rfind(path, "/"))
        k    == rfind(name, ".")
    IN  IF 1 < k /\ k < Len(name) THEN Drop(name, k - 1) ELSE <<>>

w_file ==
    <<"f", "i", "l", "e">>

w_element ==
    <<"e", "l", "e", "m", "e", "n", "t">>

w_standard ==
    <<"s", "t", "a", "n", "d", "a", "r", "d">>

w_value ==
    <<"v", "a", "l", "u", "e">>

n_standard_by_element ==
    <<"s", "t", "a", "n", "d", "a", "r", "d", "_", "b", "y", "_", "e", "l", "e", "m", "e", "n", "t", ".", "c", "s", "v">>

n_xtal_by_element ==
    <<"x", "t", "a", "l", "_", "b", "y", "_", "e", "l", "e", "m", "e", "n", "t", ".", "c", "s", "v">>

n_standard_compositions ==
    <<"s", "t", "a", "n", "d", "a", "r", "d", "_", "c", "o", "m", "p", "o", "s", "i", "t", "i", "o", "n", "s", ".", "c", "s", "v">>

\* '.txt', '.qtidat'
exts ==
    { <<".", "t", "x", "t">>,
      <<".", "q", "t", "i", "d", "a", "t">> }

\* line 335: p.is_file() and p.suffix.lower() in exts
WALK_matches(e) == e.kind # "dir" /\ lower(suffix(e.path)) \in exts

V_None == [V_empty EXCEPT !.kind = "none"]

\* bool(v)
WALK_truthy(v) ==
    CASE v.kind = "raw" -> v.raw # <<>>
      [] v.kind = "cal" -> v.cal # <<>>
      [] v.kind = "ap" -> v.ap # <<>>
      [] v.kind = "none" -> FALSE
      [] OTHER -> TRUE

\* block = None; for k in parsed.keys(): if k.lower().startswith(prefix):
\* block = parsed[k]; break
WALK_first(rec, prefix) ==
    LET k == first_key(rec, prefix, 1)
    IN  IF k = 0 THEN V_None ELSE rec[k].val

\* lines 349-359: the element-to-standard map taken from one file's record.
\* Under a key with the prefix 'standard name' parse_file stores a str or, at
\* 'Standard Name parsed', the result of the Standard Name grammar.  Under
\* 'element_to_standard' it can only store a section's str, so the test
\* isinstance(parsed['element_to_standard'], dict) at line 356 fails and
\* sn_block stays as found.
WALK_etos(rec) ==
    LET found == WALK_first(rec, p_standard_name)
    IN  IF WALK_truthy(found) /\ found.kind = "sn"
        THEN found.sn.element_to_standard ELSE <<>>

\* lines 381-389: the rows taken from one file's record
WALK_ap_rows(rec) ==
    LET found == WALK_first(rec, p_analysis_param)
        alt   == IF od_has(rec, k_Analysis_Parameters_parsed)
                 THEN od_get(rec, k_Analysis_Parameters_parsed) ELSE V_None
        block == IF WALK_truthy(found) THEN found
                 ELSE IF WALK_truthy(alt) THEN alt ELSE found
    IN  IF WALK_truthy(block) /\ block.kind = "ap" THEN block.ap ELSE <<>>

\* 'element', 'el', 'analyte', 'name'
element_words ==
    { w_element,
      <<"e", "l">>,
      <<"a", "n", "a", "l", "y", "t", "e">>,
      <<"n", "a", "m", "e">> }

\* 'xtal', 'cryst', 'crystal'
xtal_words ==
    { <<"x", "t", "a", "l">>,
      <<"c", "r", "y", "s", "t">>,
      <<"c", "r", "y", "s", "t", "a", "l">> }

\* lines 391-398: <<element, xtal>> after the items of row from position k on;
\* None and '' are both the empty sequence
RECURSIVE WALK_row_scan(_, _, _, _)
WALK_row_scan(row, k, element, xtal) ==
    IF k > Len(row) THEN <<element, xtal>>
    ELSE LET kl == lower(row[k].key)
         IN  WALK_row_scan(row, k + 1,
                 IF kl \in element_words THEN row[k].val ELSE element,
                 IF \E w \in xtal_words : has_sub(kl, w) THEN row[k].val ELSE xtal)

\* lines 400-404: the first value of row that is not empty
WALK_first_value(row) ==
    LET full == {k \in 1..Len(row) : row[k].val # <<>>}
    IN  IF full = {} THEN <<>>
        ELSE row[CHOOSE k \in full : \A m \in full : k <= m].val

\* lines 390-407: the loop over the rows
RECURSIVE WALK_xtal_rows(_, _)
WALK_xtal_rows(m, rows) ==
    IF rows = <<>> THEN m
    ELSE LET ex      == WALK_row_scan(rows[1], 1, <<>>, <<>>)
             element == IF ex[1] # <<>> THEN ex[1] ELSE WALK_first_value(rows[1])
         IN  WALK_xtal_rows(IF element # <<>> THEN od_put(m, element, ex[2]) ELSE m,
                            Tail(rows))

\* row = {'file': fp}; for el in elements: row[el] = emap.get(el, '')
RECURSIVE WALK_row(_, _, _)
WALK_row(row, elements, emap) ==
    IF elements = <<>> THEN row
    ELSE WALK_row(od_put(row, elements[1],
                         IF od_has(emap, elements[1]) THEN od_get(emap, elements[1]) ELSE <<>>),
                  Tail(elements), emap)

\* lines 345-362: file_to_element_standard
WALK_file_to_element_standard(pbf) ==
    [k \in 1..Len(pbf) |-> [key |-> pbf[k].key, val |-> od_update(<<>>, WALK_etos(pbf[k].val))]]

\* lines 378-407: file_to_element_xtal
WALK_file_to_element_xtal(pbf) ==
    [k \in 1..Len(pbf) |-> [key |-> pbf[k].key, val |-> WALK_xtal_rows(<<>>, WALK_ap_rows(pbf[k].val))]]

\* lines 364-374 and 409-418: the table with one column per element written
\* from the element maps of the files.  DictWriter.writerow writes the cells
\* of a row in the order of the fields; the rows do not depend on the order in
\* which the set of elements is iterated.
WALK_wide_table(pbf, file_to_element) ==
    LET elements == UNION {{file_to_element[k].val[j].key : j \in 1..Len(file_to_element[k].val)}
                           : k \in 1..Len(file_to_element)}
        fields   == <<w_file>> \o sorted(elements)
        fps      == sorted({pbf[k].key : k \in 1..Len(pbf)})
    IN  [header |-> fields,
         rows   |-> [k \in 1..Len(fps) |->
                       LET row == WALK_row(<<[key |-> w_file, val |-> fps[k]]>>,
                                           sorted(elements),
                                           IF od_has(file_to_element, fps[k])
                                           THEN od_get(file_to_element, fps[k]) ELSE <<>>)
                       IN  [j \in 1..Len(fields) |-> od_get(row, fields[j])]]]

\* lines 423-433: the standard-to-composition map taken from one file's
\* record.  Under a key with the prefix 'standard composition' parse_file
\* stores a str or, at 'Standard composition parsed', the result of the
\* composition grammar, which has the key 'standard_to_composition'.
WALK_std_map(rec) ==
    LET found == WALK_first(rec, p_standard_composition)
    IN  IF WALK_truthy(found) /\ found.kind = "sc"
        THEN found.sc.standard_to_composition ELSE <<>>

\* lines 434-436: standard_compositions.setdefault(std, {}).update(comps)
RECURSIVE WALK_merge(_, _)
WALK_merge(all, std_map) ==
    IF std_map = <<>> THEN all
    ELSE LET std == std_map[1].key
             old == IF od_has(all, std) THEN od_get(all, std) ELSE <<>>
         IN  WALK_merge(od_put(all, std, od_update(old, std_map[1].val)), Tail(std_map))

\* lines 421-436: the loop over the files
RECURSIVE WALK_standard_compositions(_, _)
WALK_standard_compositions(all, pbf) ==
    IF pbf = <<>> THEN all
    ELSE WALK_standard_compositions(WALK_merge(all, WALK_std_map(pbf[1].val)), Tail(pbf))

\* lines 438-441: the rows of the long table
RECURSIVE WALK_std_comp_rows(_)
WALK_std_comp_rows(all) ==
    IF all = <<>> THEN <<>>
    ELSE [k \in 1..Len(all[1].val) |->
            [standard |-> all[1].key,
             element  |-> all[1].val[k].key,
             value    |-> IF all[1].val[k].val = None THEN Str(<<>>)
                          ELSE all[1].val[k].val]]
         \o WALK_std_comp_rows(Tail(all))

\* the contents of the files of the model
FileContentSet ==
    {
      <<<<"S", "t", "a", "n", "d", "a", "r", "d", " ", "N", "a", "m", "e", ":">>,
          \* 'Standard Name:'
        <<" ", "a", " ", ",", "b", " ", "O", "n", " ", "W">>,
          \* ' a ,b On W'
        <<"A", "n", "a", "l", "y", "s", "i", "s", " ", "P", "a", "r", "a", "m", "e", "t", "e", "r", "s", ":">>,
          \* 'Analysis Parameters:'
        <<" ", "E", "l", "\t", "X", "t", "a", "l">>,
          \* ' El<tab>Xtal'
        <<" ", "a", "\t", "L", "I", "F">>,
          \* ' a<tab>LIF'
        <<"S", "t", "a", "n", "d", "a", "r", "d", " ", "c", "o", "m", "p", "o", "s", "i", "t", "i", "o", "n", ":">>,
          \* 'Standard composition:'
        <<" ", "W", " ", "=", " ", "a", " ", ":", " ", "1", "%">>>>,
          \* ' W = a : 1%'
      <<<<"S", "t", "a", "n", "d", "a", "r", "d", " ", "N", "a", "m", "e", " ", "p", "a", "r", "s", "e", "d", ":">>,
          \* 'Standard Name parsed:'
        <<" ", "c", " ", "O", "n", " ", "V">>,
          \* ' c On V'
        <<"A", "n", "a", "l", "y", "s", "i", "s", " ", "P", "a", "r", "a", "m", "e", "t", "e", "r", "s", " ", "p", "a", "r", "s", "e", "d", ":">>,
          \* 'Analysis Parameters parsed:'
        <<" ", "E", "l", "\t", "X", "t", "a", "l">>,
          \* ' El<tab>Xtal'
        <<" ", "b", "\t", "P", "E", "T">>>>,
          \* ' b<tab>PET'
      <<<<"S", "t", "a", "n", "d", "a", "r", "d", " ", "c", "o", "m", "p", "o", "s", "i", "t", "i", "o", "n", " ", "p", "a", "r", "s", "e", "d", ":">>,
          \* 'Standard composition parsed:'
        <<" ", "V", " ", "=", " ", "c", " ", ":", " ", "2">>,
          \* ' V = c : 2'
        <<"S", "t", "a", "n", "d", "a", "r", "d", " ", "N", "a", "m", "e", " ", "p", "a", "r", "s", "e", "d", ":">>,
          \* 'Standard Name parsed:'
        <<" ", "a", " ", "O", "n", " ", "U">>>>,
          \* ' a On U'
      <<<<"C", "o", "m", "m", "e", "n", "t", ":", " ", "h", "i">>>> }
          \* 'Comment: hi'

PathSet ==
    { <<"r", "/", "a", ".", "t", "x", "t">>,
      <<"r", "/", "B", ".", "T", "X", "T">>,
      <<"r", "/", "c", ".", "q", "t", "i", "D", "a", "t">>,
      <<"r", "/", "d", ".", "c", "s", "v">> }

\* a directory entry: a directory, a file that cannot be opened, or a file
EntrySet ==
    {[path |-> p, kind |-> "dir", content |-> <<>>] : p \in PathSet}
    \cup {[path |-> p, kind |-> "unreadable", content |-> <<>>] : p \in PathSet}
    \cup {[path |-> p, kind |-> "file", content |-> c] : p \in PathSet, c \in FileContentSet}

\* the directories of up to n entries
RECURSIVE TreesUpTo(_)
TreesUpTo(n) ==
    IF n = 0 THEN {{}}
    ELSE TreesUpTo(n - 1)
         \cup {T \cup {e} : T \in TreesUpTo(n - 1),
                            e \in EntrySet}

Tree_ok(T) == \A e, f \in T : e.path = f.path => e = f

(***************************************************************************)
(* SpecWalk: walk_parse_and_export on any directory; rglob yields the      *)
(* entries in any order.                                                   *)
(***************************************************************************)
InitWalk ==
    /\ pc = "walk"
    /\ tree \in {T \in TreesUpTo(MaxFiles) : Tree_ok(T)}
    /\ todo = {e.path : e \in tree}
    /\ parsed_by_file = <<>>
    /\ csv = <<>>
    /\ lines = <<>> /\ i = 0 /\ out = <<>>
    /\ IdleCond /\ IdleFile

\* lines 334-335: an entry that is no file with one of the extensions
WalkSkip ==
    /\ pc = "walk"
    /\ \E e \in tree :
          /\ e.path \in todo
          /\ ~WALK_matches(e)
          /\ todo' = todo \ {e.path}
    /\ UNCHANGED <<pc, tree, parsed_by_file, csv, loopVars, last_cond, fileVars>>

\* lines 336-341 when parse_file raises: the run stops there
WalkFail_abort ==
    /\ pc = "walk"
    /\ \E e \in tree :
          /\ e.path \in todo
          /\ WALK_matches(e)
          /\ e.kind = "unreadable"
    /\ pc' = "done"
    /\ UNCHANGED <<todo, tree, parsed_by_file, csv, lines, i, out, last_cond, fileVars>>

\* lines 336-340: parse_file raises, the file is reported and skipped
WalkFail ==
    /\ pc = "walk"
    /\ \E e \in tree :
          /\ e.path \in todo
          /\ WALK_matches(e)
          /\ e.kind = "unreadable"
          /\ todo' = todo \ {e.path}
    /\ UNCHANGED <<pc, tree, parsed_by_file, csv, loopVars, last_cond, fileVars>>

\* lines 336-341: parse_file returns the file's record
WalkParse ==
    /\ pc = "walk"
    /\ \E e \in tree :
          /\ e.path \in todo
          /\ WALK_matches(e)
          /\ e.kind = "file"
          /\ todo' = todo \ {e.path}
          /\ parsed_by_file' = od_put(parsed_by_file, e.path, parse_file(e.content))
    /\ UNCHANGED <<pc, tree, csv, loopVars, last_cond, fileVars>>

\* lines 343-374
WalkStandardTable ==
    /\ pc = "walk"
    /\ todo = {}
    /\ csv' = od_put(csv, n_standard_by_element,
                     WALK_wide_table(parsed_by_file,
                                     WALK_file_to_element_standard(parsed_by_file)))
    /\ pc' = "xtal"
    /\ UNCHANGED <<todo, tree, parsed_by_file, lines, i, out, last_cond, fileVars>>

\* lines 376-418
WalkXtalTable ==
    /\ pc = "xtal"
    /\ csv' = od_put(csv, n_xtal_by_element,
                     WALK_wide_table(parsed_by_file,
                                     WALK_file_to_element_xtal(parsed_by_file)))
    /\ pc' = "compositions"
    /\ UNCHANGED <<todo, tree, parsed_by_file, lines, i, out, last_cond, fileVars>>

\* lines 420-449
WalkStandardCompositions ==
    /\ pc = "compositions"
    /\ LET rows == WALK_std_comp_rows(WALK_standard_compositions(<<>>, parsed_by_file))
       IN  csv' = IF rows # <<>>
                  THEN od_put(csv, n_standard_compositions,
                              [header |-> <<w_standard, w_element, w_value>>, rows |-> rows])
                  ELSE csv
    /\ pc' = "done"
    /\ UNCHANGED <<todo, tree, parsed_by_file, lines, i, out, last_cond, fileVars>>

NextWalk ==
    \/ WalkSkip \/ WalkFail \/ WalkParse
    \/ WalkStandardTable \/ WalkXtalTable \/ WalkStandardCompositions

SpecWalk == InitWalk /\ [][NextWalk]_vars

(***************************************************************************)
(* Claims about walk_parse_and_export.                                     *)
(***************************************************************************)
\* the element-to-standard map of the Standard Name result in a file's record
C5_Result(rec) ==
    IF od_has(rec, k_Standard_Name_parsed) /\ od_get(rec, k_Standard_Name_parsed).kind = "sn"
    THEN od_get(rec, k_Standard_Name_parsed).sn.element_to_standard
    ELSE <<>>

C5_Elements ==
    UNION {{C5_Result(parsed_by_file[k].val)[j].key
              : j \in 1..Len(C5_Result(parsed_by_file[k].val))}
           : k \in 1..Len(parsed_by_file)}

\* C5: the standard_by_element table has one row per parsed file, sorted by
\* path, and one column per element of the union of the files' Standard Name
\* element_to_standard maps; the cell of file F and element E is the standard
\* F's Standard Name result assigns to E, or the empty string.
C5_StandardTable ==
    od_has(csv, n_standard_by_element) =>
        LET t   == od_get(csv, n_standard_by_element)
            fps == sorted({parsed_by_file[k].key : k \in 1..Len(parsed_by_file)})
            els == sorted(C5_Elements)
        IN  /\ t.header = <<w_file>> \o els
            /\ Len(t.rows) = Len(fps)
            /\ \A k \in 1..Len(fps) :
                  /\ Len(t.rows[k]) = 1 + Len(els)
                  /\ t.rows[k][1] = fps[k]
                  /\ \A j \in 1..Len(els) :
                        LET m == C5_Result(od_get(parsed_by_file, fps[k]))
                        IN  t.rows[k][j + 1] =
                              IF od_has(m, els[j]) THEN od_get(m, els[j]) ELSE <<>>

C6_HeaderOnly(name, header) ==
    /\ od_has(csv, name)
    /\ od_get(csv, name) = [header |-> header, rows |-> <<>>]

\* C6: when the directory holds no file with a recognized extension, the run
\* ends with all three tables written, each with its header row only.
C6_EmptyDirectoryTables ==
    (pc = "done" /\ ~(\E e \in tree : WALK_matches(e))) =>
        /\ C6_HeaderOnly(n_standard_by_element, <<w_file>>)
        /\ C6_HeaderOnly(n_xtal_by_element, <<w_file>>)
        /\ C6_HeaderOnly(n_standard_compositions, <<w_standard, w_element, w_value>>)

C7_Parsed == {parsed_by_file[k].key : k \in 1..Len(parsed_by_file)}

C7_RowFiles(name) ==
    [k \in 1..Len(od_get(csv, name).rows) |-> od_get(csv, name).rows[k][1]]

\* C7: a file on which parse_file fails does not abort the run: at the end
\* every entry has been visited, the failed files are absent from
\* parsed_by_file and from the rows of the tables, and every other matching
\* file is present with the record parse_file returns for it.
C7_FailedFileSkipped ==
    pc = "done" =>
        /\ todo = {}
        /\ C7_Parsed = {e.path : e \in {x \in tree : WALK_matches(x) /\ x.kind = "file"}}
        /\ \A e \in tree :
              (WALK_matches(e) /\ e.kind = "file") =>
                  od_get(parsed_by_file, e.path) = parse_file(e.content)
        /\ \A name \in {n_standard_by_element, n_xtal_by_element} :
              /\ od_has(csv, name)
              /\ C7_RowFiles(name) = sorted(C7_Parsed)

\* a run has ended on a directory with a file that failed and one that parsed
C7_Witness ==
    /\ pc = "done"
    /\ \E e, f \in tree :
          /\ WALK_matches(e) /\ e.kind = "unreadable"
          /\ WALK_matches(f) /\ f.kind = "file"
          /\ e.path \notin C7_Parsed
          /\ f.path \in C7_Parsed

====
